---- MODULE Spec2Model ----
(***************************************************************************)
(* A model of src/blast.py: the BLAST seed-and-extend pipeline             *)
(* (create_list_of_words, filter_positions, find_possible_sequences,       *)
(* sequence_alignment) and the Smith-Waterman engine (sw_scoring,          *)
(* smith_waterman).  Strings are sequences of one-letter strings.          *)
(***************************************************************************)
EXTENDS Integers, Sequences, FiniteSets, TLC

VARIABLES
    \* smith_waterman / sw_scoring
    s1, s2, scoring, DP, TM, pointer, best, subs1, subs2, pc,
    \* filter_positions
    positions, new_positions, arg0, ncalls,
    \* create_list_of_words
    input_seq, input_words, wpc,
    \* find_possible_sequences / sequence_alignment
    corpus, query, fpositions, seq_len, sequences, output, ppc

swVars     == <<s1, s2, scoring, DP, TM, pointer, best, subs1, subs2, pc>>
filterVars == <<positions, new_positions, arg0, ncalls>>
wordVars   == <<input_seq, input_words, wpc>>
pipeVars   == <<corpus, query, fpositions, seq_len, sequences, output, ppc>>
vars       == <<swVars, filterVars, wordVars, pipeVars>>

---------------------------------------------------------------------------
\* Bounds of the model
MaxLen      == 4     \* longest s1 / s2 given to the alignment engine
MaxPos      == 4     \* largest offset in a position list
MaxPosLen   == 4     \* longest position list given to filter_positions
MaxSeqLen   == 13    \* longest input to create_list_of_words
MaxCorpus   == 3     \* longest corpus file
MaxQuery    == 2     \* longest query given to sequence_alignment
MaxWindow   == 3     \* largest seq_len given to find_possible_sequences
MaxHits     == 2     \* longest position list given to find_possible_sequences

Alphabet == {"a", "b"}

SeqsUpTo(S, n) == UNION {[1..k -> S] : k \in 0..n}

---------------------------------------------------------------------------
\* Program constants
WordLen           == 11
DefaultGapPenalty == 3
DefaultMatch      == 1
DefaultMismatch   == -1
GapLength         == 1

\* np.nan: the "not yet computed" mark of a matrix cell
NaN == -1000

\* Scoring parameters a caller may hand to sw_scoring (the defaults included)
GapChoices      == {1, DefaultGapPenalty}
MatchChoices    == {DefaultMatch, 2}
MismatchChoices == {DefaultMismatch, -2}

---------------------------------------------------------------------------
\* Helpers for Python built-ins

\* max(vals) of a non-empty list
MaxOf(vals) == CHOOSE v \in {vals[k] : k \in 1..Len(vals)} :
                   \A k \in 1..Len(vals) : vals[k] <= v

\* np.argmax(vals): 0-based index of the first maximal entry
ArgMax(vals) == (CHOOSE k \in 1..Len(vals) :
                    /\ vals[k] = MaxOf(vals)
                    /\ \A l \in 1..(k-1) : vals[l] < vals[k]) - 1

\* s[::-1]
Reverse(s) == [k \in 1..Len(s) |-> s[Len(s) + 1 - k]]

---------------------------------------------------------------------------
\* smith_waterman, lines 166-172: fresh matrices, NaN except row 0 / column 0
NewMatrix(n, m) == [i \in 0..n, j \in 0..m |-> IF i = 0 \/ j = 0 THEN 0 ELSE NaN]

\* sw_scoring on the prefixes s1[:i], s2[:j].  M carries both matrices, which
\* the calls update in place; the three recursive calls pass DP and TM only,
\* so they run with the default scoring parameters.
RECURSIVE SwScoring(_, _, _, _, _, _, _, _)
SwScoring(a, b, i, j, M, gap_penalty, match, mismatch) ==
    IF M.DP[i, j] # NaN
    THEN [val |-> M.DP[i, j], dir |-> M.TM[i, j], M |-> M]
    ELSE IF i = 0 \/ j = 0
    THEN [val |-> 0, dir |-> 0, M |-> M]
    ELSE LET r1   == SwScoring(a, b, i-1, j-1, M,
                               DefaultGapPenalty, DefaultMatch, DefaultMismatch)
             val1 == r1.val + (IF a[i] = b[j] THEN match ELSE mismatch)
             r2   == SwScoring(a, b, i, j-1, r1.M,
                               DefaultGapPenalty, DefaultMatch, DefaultMismatch)
             val2 == r2.val - gap_penalty
             r3   == SwScoring(a, b, i-1, j, r2.M,
                               DefaultGapPenalty, DefaultMatch, DefaultMismatch)
             val3 == r3.val - gap_penalty
             vals == <<0, val1, val2, val3>>
             M4   == [DP |-> [r3.M.DP EXCEPT ![i, j] = MaxOf(vals)],
                      TM |-> [r3.M.TM EXCEPT ![i, j] = ArgMax(vals)]]
         IN  [val |-> M4.DP[i, j], dir |-> M4.TM[i, j], M |-> M4]

\* np.unravel_index(np.nanargmax(DP, axis=None), DP.shape): the first cell in
\* row-major order that holds the largest non-NaN value
NanArgMax(D, n, m) ==
    LET cells == {c \in (0..n) \X (0..m) : D[c[1], c[2]] # NaN}
        top   == {c \in cells : \A d \in cells : D[d[1], d[2]] <= D[c[1], c[2]]}
    IN  CHOOSE c \in top :
            \A d \in top : c[1] < d[1] \/ (c[1] = d[1] /\ c[2] <= d[2])

\* LoopCond leaving the loop one score early
LoopCondEarly(D, p) == D[p[1], p[2]] > 1

\* line 182: the condition of the traceback loop
LoopCond(D, p) == D[p[1], p[2]] # 0

\* lines 184-186: which neighbour the traceback moves to
TraceInd(D, p) == ArgMax(<<D[p[1]-1, p[2]-1], D[p[1], p[2]-1], D[p[1]-1, p[2]]>>)

\* lines 192, 198, 204: the cursor after a move
DiagonalOf(p) == <<p[1]-1, p[2]-1>>
LeftOf(p)     == <<p[1], p[2]-1>>
UpOf(p)       == <<p[1]-1, p[2]>>

InitSW ==
    /\ s1 \in SeqsUpTo(Alphabet, MaxLen)
    /\ s2 \in SeqsUpTo(Alphabet, MaxLen)
    /\ scoring = [gap_penalty |-> DefaultGapPenalty, match |-> DefaultMatch,
                  mismatch |-> DefaultMismatch]
    /\ DP = NewMatrix(0, 0)
    /\ TM = NewMatrix(0, 0)
    /\ pointer = <<0, 0>>
    /\ best = 0
    /\ subs1 = <<>>
    /\ subs2 = <<>>
    /\ pc = "start"
    \* filter_positions at rest
    /\ positions = <<>> /\ arg0 = <<>> /\ new_positions = <<>> /\ ncalls = -1
    \* create_list_of_words at rest
    /\ input_seq = <<>> /\ input_words = <<>> /\ wpc = "idle"
    \* the window fetch and the ranking at rest
    /\ corpus = <<>> /\ query = <<>> /\ fpositions = <<>> /\ seq_len = 0
    /\ sequences = <<>> /\ output = <<>> /\ ppc = "idle"

\* A caller builds the matrices as smith_waterman does and calls
\* sw_scoring(s1, s2, DP, TM, gap_penalty, match, mismatch) itself.
SwScoringCall ==
    /\ pc = "start"
    /\ \E g \in GapChoices, mt \in MatchChoices, mm \in MismatchChoices :
         LET M0 == [DP |-> NewMatrix(Len(s1), Len(s2)),
                    TM |-> NewMatrix(Len(s1), Len(s2))]
             r  == SwScoring(s1, s2, Len(s1), Len(s2), M0, g, mt, mm)
         IN  /\ scoring' = [gap_penalty |-> g, match |-> mt, mismatch |-> mm]
             /\ DP' = r.M.DP
             /\ TM' = r.M.TM
    /\ pc' = "scored"
    /\ UNCHANGED <<s1, s2, pointer, best, subs1, subs2>>
    /\ UNCHANGED <<filterVars, wordVars, pipeVars>>

\* smith_waterman, lines 166-179
SmithWatermanFill ==
    /\ pc = "start"
    /\ LET M0 == [DP |-> NewMatrix(Len(s1), Len(s2)),
                  TM |-> NewMatrix(Len(s1), Len(s2))]
           r  == SwScoring(s1, s2, Len(s1), Len(s2), M0,
                           DefaultGapPenalty, DefaultMatch, DefaultMismatch)
           p  == NanArgMax(r.M.DP, Len(s1), Len(s2))
       IN  /\ DP' = r.M.DP
           /\ TM' = r.M.TM
           /\ pointer' = p
           /\ best' = r.M.DP[p[1], p[2]]
    /\ subs1' = <<>>
    /\ subs2' = <<>>
    /\ pc' = "trace"
    /\ UNCHANGED <<s1, s2, scoring>>
    /\ UNCHANGED <<filterVars, wordVars, pipeVars>>

\* one pass of the while loop, lines 182-192
TraceDiagonal ==
    /\ pc = "trace"
    /\ LoopCond(DP, pointer)
    /\ TraceInd(DP, pointer) = 0
    /\ subs1' = Append(subs1, s1[pointer[1]])
    /\ subs2' = Append(subs2, s2[pointer[2]])
    /\ pointer' = DiagonalOf(pointer)
    /\ UNCHANGED <<s1, s2, scoring, DP, TM, best, pc>>
    /\ UNCHANGED <<filterVars, wordVars, pipeVars>>

\* lines 182-186, 195-198
TraceLeft ==
    /\ pc = "trace"
    /\ LoopCond(DP, pointer)
    /\ TraceInd(DP, pointer) = 1
    /\ subs1' = Append(subs1, "-")
    /\ subs2' = Append(subs2, s2[pointer[2]])
    /\ pointer' = LeftOf(pointer)
    /\ UNCHANGED <<s1, s2, scoring, DP, TM, best, pc>>
    /\ UNCHANGED <<filterVars, wordVars, pipeVars>>

\* lines 182-186, 201-204
TraceUp ==
    /\ pc = "trace"
    /\ LoopCond(DP, pointer)
    /\ TraceInd(DP, pointer) = 2
    /\ subs1' = Append(subs1, s1[pointer[1]])
    /\ subs2' = Append(subs2, "-")
    /\ pointer' = UpOf(pointer)
    /\ UNCHANGED <<s1, s2, scoring, DP, TM, best, pc>>
    /\ UNCHANGED <<filterVars, wordVars, pipeVars>>

\* loop exit and lines 206-209
SmithWatermanReturn ==
    /\ pc = "trace"
    /\ ~LoopCond(DP, pointer)
    /\ subs1' = Reverse(subs1)
    /\ subs2' = Reverse(subs2)
    /\ pc' = "done"
    /\ UNCHANGED <<s1, s2, scoring, DP, TM, pointer, best>>
    /\ UNCHANGED <<filterVars, wordVars, pipeVars>>

---------------------------------------------------------------------------
\* filter_positions

\* list.sort(): ascending order, same elements
RECURSIVE InsertAsc(_, _)
InsertAsc(x, l) ==
    IF l = <<>> THEN <<x>>
    ELSE IF x <= Head(l) THEN <<x>> \o l
    ELSE <<Head(l)>> \o InsertAsc(x, Tail(l))

\* SortAsc with the sort left out
Unsorted(l) == l

RECURSIVE SortAsc(_)
SortAsc(l) == IF l = <<>> THEN <<>> ELSE InsertAsc(Head(l), SortAsc(Tail(l)))

\* Keep with the comparison weakened to >=
KeepAtGap(x, index) == x >= index + GapLength

\* line 220: the test that keeps positions[i]
Keep(x, index) == x > index + GapLength

\* lines 219-222: the scan from element i on, index being the previous element
RECURSIVE FilterScan(_, _, _, _)
FilterScan(ps, i, index, acc) ==
    IF i > Len(ps) THEN acc
    ELSE FilterScan(ps, i + 1, ps[i],
                    IF Keep(ps[i], index) THEN Append(acc, ps[i]) ELSE acc)

\* lines 215-223: what the call leaves in its argument, and what it returns
FilterPositions(ps) ==
    LET sorted == SortAsc(ps)
    IN  [arg |-> sorted,
         ret |-> FilterScan(sorted, 1, -GapLength - 1, <<>>)]

InitFilter ==
    /\ positions \in SeqsUpTo(0..MaxPos, MaxPosLen)
    /\ arg0 = positions
    /\ new_positions = <<>>
    /\ ncalls = 0
    \* the alignment engine at rest
    /\ s1 = <<>> /\ s2 = <<>>
    /\ scoring = [gap_penalty |-> DefaultGapPenalty, match |-> DefaultMatch,
                  mismatch |-> DefaultMismatch]
    /\ DP = NewMatrix(0, 0) /\ TM = NewMatrix(0, 0)
    /\ pointer = <<0, 0>> /\ best = 0
    /\ subs1 = <<>> /\ subs2 = <<>> /\ pc = "idle"
    \* create_list_of_words at rest
    /\ input_seq = <<>> /\ input_words = <<>> /\ wpc = "idle"
    \* the window fetch and the ranking at rest
    /\ corpus = <<>> /\ query = <<>> /\ fpositions = <<>> /\ seq_len = 0
    /\ sequences = <<>> /\ output = <<>> /\ ppc = "idle"

\* new_positions = filter_positions(positions)
FilterCall ==
    /\ ncalls = 0
    /\ arg0' = positions
    /\ positions' = FilterPositions(positions).arg
    /\ new_positions' = FilterPositions(positions).ret
    /\ ncalls' = 1
    /\ UNCHANGED <<swVars, wordVars, pipeVars>>

\* the returned list is filtered again: filter_positions(new_positions)
FilterAgain ==
    /\ ncalls = 1
    /\ arg0' = new_positions
    /\ positions' = FilterPositions(new_positions).arg
    /\ new_positions' = FilterPositions(new_positions).ret
    /\ ncalls' = 2
    /\ UNCHANGED <<swVars, wordVars, pipeVars>>

---------------------------------------------------------------------------
\* create_list_of_words

Min(x, y) == IF x <= y THEN x ELSE y

\* seq[lo:hi] for 0 <= lo: a slice stops at the end of the sequence
Slice(seq, lo, hi) == SubSeq(seq, lo + 1, Min(hi, Len(seq)))

\* WordCount one pass short, range(len(input_seq)-11)
WordCountShort(n) == IF n - 11 > 0 THEN n - 11 ELSE 0

\* line 67: the number of passes of the loop, range(len(input_seq)-10)
WordCount(n) == IF n - 10 > 0 THEN n - 10 ELSE 0

\* lines 63-69
CreateListOfWordsResult(seq) ==
    IF Len(seq) = WordLen THEN <<seq>>
    ELSE [k \in 1..WordCount(Len(seq)) |-> Slice(seq, k - 1, k - 1 + WordLen)]

InitWords ==
    /\ input_seq \in SeqsUpTo(Alphabet, MaxSeqLen)
    /\ input_words = <<>>
    /\ wpc = "start"
    \* the alignment engine at rest
    /\ s1 = <<>> /\ s2 = <<>>
    /\ scoring = [gap_penalty |-> DefaultGapPenalty, match |-> DefaultMatch,
                  mismatch |-> DefaultMismatch]
    /\ DP = NewMatrix(0, 0) /\ TM = NewMatrix(0, 0)
    /\ pointer = <<0, 0>> /\ best = 0
    /\ subs1 = <<>> /\ subs2 = <<>> /\ pc = "idle"
    \* filter_positions at rest
    /\ positions = <<>> /\ arg0 = <<>> /\ new_positions = <<>> /\ ncalls = -1
    \* the window fetch and the ranking at rest
    /\ corpus = <<>> /\ query = <<>> /\ fpositions = <<>> /\ seq_len = 0
    /\ sequences = <<>> /\ output = <<>> /\ ppc = "idle"

\* line 60: the assertion fails
CreateListOfWordsAssert ==
    /\ wpc = "start"
    /\ ~(Len(input_seq) >= WordLen)
    /\ wpc' = "AssertionError"
    /\ UNCHANGED <<input_seq, input_words>>
    /\ UNCHANGED <<swVars, filterVars, pipeVars>>

\* lines 60-69: the call returns
CreateListOfWords ==
    /\ wpc = "start"
    /\ Len(input_seq) >= WordLen
    /\ input_words' = CreateListOfWordsResult(input_seq)
    /\ wpc' = "returned"
    /\ UNCHANGED input_seq
    /\ UNCHANGED <<swVars, filterVars, pipeVars>>

---------------------------------------------------------------------------
\* find_possible_sequences and sequence_alignment

\* f.seek(pos); f.read(n) on a text file holding data: at most n letters
\* from offset pos on, fewer (or none) at or past the end of the file
FileRead(data, pos, n) == SubSeq(data, pos + 1, Min(pos + n, Len(data)))

\* line 102: the offset handed to f.seek
SeekPos(position, n) == position - (n \div 2)

\* smith_waterman(a, b)[1]: the largest entry of the filled score matrix
SmithWatermanBest(a, b) ==
    LET M0 == [DP |-> NewMatrix(Len(a), Len(b)), TM |-> NewMatrix(Len(a), Len(b))]
        r  == SwScoring(a, b, Len(a), Len(b), M0,
                        DefaultGapPenalty, DefaultMatch, DefaultMismatch)
        p  == NanArgMax(r.M.DP, Len(a), Len(b))
    IN  r.M.DP[p[1], p[2]]

\* line 120: the key the output is sorted on
SortKey(tup) == tup[2]

\* output.sort(key=..., reverse=True): descending keys, equal keys keep
\* their order
RECURSIVE InsertDesc(_, _)
InsertDesc(l, x) ==
    IF l = <<>> THEN <<x>>
    ELSE IF SortKey(Head(l)) >= SortKey(x) THEN <<Head(l)>> \o InsertDesc(Tail(l), x)
    ELSE <<x>> \o l

RECURSIVE SortDesc(_, _)
SortDesc(l, acc) ==
    IF l = <<>> THEN acc ELSE SortDesc(Tail(l), InsertDesc(acc, Head(l)))

InitPipe ==
    /\ corpus \in SeqsUpTo(Alphabet, MaxCorpus)
    /\ query \in SeqsUpTo(Alphabet, MaxQuery)
    /\ fpositions \in SeqsUpTo(0..MaxCorpus, MaxHits)
    /\ seq_len \in 0..MaxWindow
    /\ sequences = <<>>
    /\ output = <<>>
    /\ ppc = "start"
    \* the alignment engine at rest
    /\ s1 = <<>> /\ s2 = <<>>
    /\ scoring = [gap_penalty |-> DefaultGapPenalty, match |-> DefaultMatch,
                  mismatch |-> DefaultMismatch]
    /\ DP = NewMatrix(0, 0) /\ TM = NewMatrix(0, 0)
    /\ pointer = <<0, 0>> /\ best = 0
    /\ subs1 = <<>> /\ subs2 = <<>> /\ pc = "idle"
    \* filter_positions at rest
    /\ positions = <<>> /\ arg0 = <<>> /\ new_positions = <<>> /\ ncalls = -1
    \* create_list_of_words at rest
    /\ input_seq = <<>> /\ input_words = <<>> /\ wpc = "idle"

\* lines 98-102: f.seek refuses a negative offset
FindPossibleSequencesRaise ==
    /\ ppc = "start"
    /\ \E k \in 1..Len(fpositions) : SeekPos(fpositions[k], seq_len) < 0
    /\ ppc' = "ValueError"
    /\ UNCHANGED <<corpus, query, fpositions, seq_len, sequences, output>>
    /\ UNCHANGED <<swVars, filterVars, wordVars>>

\* lines 98-105
FindPossibleSequences ==
    /\ ppc = "start"
    /\ \A k \in 1..Len(fpositions) : SeekPos(fpositions[k], seq_len) >= 0
    /\ sequences' = [k \in 1..Len(fpositions) |->
                        FileRead(corpus, SeekPos(fpositions[k], seq_len), seq_len)]
    /\ ppc' = "fetched"
    /\ UNCHANGED <<corpus, query, fpositions, seq_len, output>>
    /\ UNCHANGED <<swVars, filterVars, wordVars>>

\* lines 113-121
SequenceAlignment ==
    /\ ppc = "fetched"
    /\ output' = SortDesc([k \in 1..Len(sequences) |->
                              <<sequences[k], fpositions[k],
                                SmithWatermanBest(query, sequences[k])>>], <<>>)
    /\ ppc' = "aligned"
    /\ UNCHANGED <<corpus, query, fpositions, seq_len, sequences>>
    /\ UNCHANGED <<swVars, filterVars, wordVars>>

---------------------------------------------------------------------------
\* Specifications: one per part of the program, the other parts at rest

\* the while loop of smith_waterman and the return that follows it
Traceback == TraceDiagonal \/ TraceLeft \/ TraceUp \/ SmithWatermanReturn

NextSW ==
    \/ SwScoringCall
    \/ SmithWatermanFill
    \/ TraceDiagonal
    \/ TraceLeft
    \/ TraceUp
    \/ SmithWatermanReturn

SpecSW == InitSW /\ [][NextSW]_vars

\* smith_waterman is sequential code: once in the loop it keeps running
LiveSpecSW == SpecSW /\ WF_vars(Traceback)

NextFilter == FilterCall \/ FilterAgain

SpecFilter == InitFilter /\ [][NextFilter]_vars

NextWords == CreateListOfWordsAssert \/ CreateListOfWords

SpecWords == InitWords /\ [][NextWords]_vars

NextPipe == FindPossibleSequencesRaise \/ FindPossibleSequences \/ SequenceAlignment

SpecPipe == InitPipe /\ [][NextPipe]_vars

---------------------------------------------------------------------------
\* Properties

Range(l) == {l[k] : k \in 1..Len(l)}

\* the term of the recurrence for each neighbour of cell (i, j)
DiagTerm(D, i, j, match, mismatch) ==
    D[i-1, j-1] + (IF s1[i] = s2[j] THEN match ELSE mismatch)
LeftTerm(D, i, j, gap_penalty) == D[i, j-1] - gap_penalty
UpTerm(D, i, j, gap_penalty)   == D[i-1, j] - gap_penalty

\* C1: after sw_scoring(s1, s2, DP, TM, gap_penalty, match, mismatch) every
\* cell with i >= 1 and j >= 1 satisfies the recurrence evaluated with the
\* parameters that were passed.
C1_RecurrenceWithSuppliedScoring ==
    pc = "scored" =>
        \A i \in 1..Len(s1), j \in 1..Len(s2) :
            DP[i, j] = MaxOf(<<0,
                               DiagTerm(DP, i, j, scoring.match, scoring.mismatch),
                               LeftTerm(DP, i, j, scoring.gap_penalty),
                               UpTerm(DP, i, j, scoring.gap_penalty)>>)

IsSubstring(x, y) ==
    \E o \in 0..(Len(y) - Len(x)) : SubSeq(y, o + 1, o + Len(x)) = x

\* C2: when one input x is a contiguous substring of the other,
\* smith_waterman returns the pair (x, x) and the score len(x).
C2_EmbeddedExactMatch ==
    pc = "done" =>
        /\ IsSubstring(s1, s2) => (subs1 = s1 /\ subs2 = s1 /\ best = Len(s1))
        /\ IsSubstring(s2, s1) => (subs1 = s2 /\ subs2 = s2 /\ best = Len(s2))

\* the top N of the ranking
TopN == 5

\* C3: sequence_alignment returns its results by descending score, equal
\* scores by ascending offset, and no more than the top N of them.
C3_RankedByScore ==
    ppc = "aligned" =>
        /\ \A k \in 1..(Len(output) - 1) :
               \/ output[k][3] > output[k+1][3]
               \/ output[k][3] = output[k+1][3] /\ output[k][2] <= output[k+1][2]
        /\ Len(output) <= TopN

\* C4: filter_positions returns, ascending and without repeats, exactly the
\* offsets x of its input for which x-1 is not in the input.
C4_FirstOfEachRun ==
    ncalls = 1 =>
        /\ \A k \in 1..(Len(new_positions) - 1) : new_positions[k] < new_positions[k+1]
        /\ Range(new_positions) = {x \in Range(arg0) : (x - 1) \notin Range(arg0)}

\* a call on an unsorted list with a run of consecutive offsets and a later
\* offset that is kept
C4_Witness ==
    /\ ncalls = 1
    /\ \E k \in 1..(Len(arg0) - 1) : arg0[k] > arg0[k+1]
    /\ \E x \in Range(arg0) : (x + 1) \in Range(arg0)
    /\ Len(new_positions) >= 2

\* C5: filtering the list filter_positions returned gives that list again.
C5_Idempotent == ncalls = 2 => new_positions = arg0

\* the second call ran on a result that the first call had shortened
C5_Witness ==
    /\ ncalls = 2
    /\ Len(arg0) >= 2
    /\ Len(new_positions) >= 2

\* C6: for len(input_seq) = n >= 11 create_list_of_words returns
\* max(1, n-11+1) words, the i-th being input_seq[i : i+11]; for n < 11 the
\* call fails and returns no list.
C6_Words ==
    LET n == Len(input_seq)
    IN  /\ wpc = "returned" =>
            /\ n >= 11
            /\ Len(input_words) = (IF n - 11 + 1 > 1 THEN n - 11 + 1 ELSE 1)
            /\ \A i \in 0..(Len(input_words) - 1) :
                   /\ input_words[i + 1] = SubSeq(input_seq, i + 1, i + 11)
                   /\ Len(input_words[i + 1]) = 11
        /\ wpc = "AssertionError" => (n < 11 /\ input_words = <<>>)
        /\ (wpc # "start" /\ n < 11) => wpc = "AssertionError"

\* a call that returned several overlapping words
C6_Witness ==
    /\ wpc = "returned"
    /\ Len(input_seq) > 11
    /\ Len(input_words) >= 2

\* C7: find_possible_sequences does not fail at the corpus boundaries: it
\* returns one window for every offset of the position list.
C7_NoFailureAtBoundaries ==
    ppc # "start" =>
        /\ ppc # "ValueError"
        /\ Len(sequences) = Len(fpositions)

\* C8: filter_positions leaves the list passed to it as it was.
C8_ArgumentUnchanged == ncalls >= 1 => positions = arg0

\* the first neighbour, in the order diagonal, left, up, whose term of the
\* recurrence equals D[i, j]
DerivedFrom(D, p) ==
    IF DiagTerm(D, p[1], p[2], DefaultMatch, DefaultMismatch) = D[p[1], p[2]]
    THEN DiagonalOf(p)
    ELSE IF LeftTerm(D, p[1], p[2], DefaultGapPenalty) = D[p[1], p[2]]
    THEN LeftOf(p)
    ELSE IF UpTerm(D, p[1], p[2], DefaultGapPenalty) = D[p[1], p[2]]
    THEN UpOf(p)
    ELSE p

\* C9: every traceback step from a cell with D # 0 moves to the first
\* neighbour (diagonal, left, up) from which the cell's score is derived.
C9_TraceFollowsDerivation ==
    [][(pc = "trace" /\ pointer' # pointer) => pointer' = DerivedFrom(DP, pointer)]_vars

\* C10: the traceback started at the first row-major maximum of D ends
\* after finitely many steps at a cell holding 0, and the cursor never leaves
\* the matrix.
C10_TracebackTerminates ==
    /\ [](pc \in {"trace", "done"} =>
            /\ pointer[1] \in 0..Len(s1)
            /\ pointer[2] \in 0..Len(s2)
            /\ Len(subs1) + pointer[1] + pointer[2] <= Len(s1) + Len(s2))
    /\ [](pc = "done" => DP[pointer[1], pointer[2]] = 0)
    /\ (pc = "trace") ~> (pc = "done")

\* a traceback of several steps that has ended
C10_Witness ==
    /\ pc = "done"
    /\ Len(subs1) >= 2
    /\ DP[pointer[1], pointer[2]] = 0

====
